---- MODULE Spec2Model ----
(***************************************************************************)
(* RTU dashboard: the detection form (RTUDetector), the preferences kept   *)
(* under localStorage key 'userSettings' (settings page and hamburger      *)
(* menu), the building search of the home page with its map, and the saved *)
(* items page with localStorage key 'savedItems'.                          *)
(*                                                                         *)
(* React runs one event handler at a time and commits the state updates of *)
(* a discrete event (click, change, key) before the next event is          *)
(* dispatched, so every action below is one handler together with the      *)
(* render that follows it; a handler therefore always reads the state of   *)
(* the last commit.                                                        *)
(***************************************************************************)
EXTENDS Integers, Sequences, FiniteSets, TLC

VARIABLES
  \* ---- RTUDetector.tsx, component state (lines 19-24)
  selectedImage,    \* data URL of the chosen image, or Null
  processedImage,   \* annotated image of the last result, or Null
  isLoading,        \* a detect call is between its start and its finally
  detectionResult,  \* the displayed DetectionResponse, or NoResult
  error,            \* the error banner's text, or Null
  isDragging,       \* a drag is over the upload area
  lastFile,         \* the file chosen or dropped last since the last reset, or Null
  resultImage,      \* the image the displayed result was computed from, or Null
  detectorCrashed,  \* a render of the component threw: it is unmounted
  reads,            \* FileReaders started and not yet loaded (files, any order)
  requests,         \* fetch calls awaiting their response: [image, reset], where
                    \* reset records that handleReset ran since the call started
  \* ---- localStorage 'userSettings', settings page, hamburger menu
  storage,          \* the stored item: [present, text]
  pageMounted, pageSettings, isSaved, pageCrashed,
  menuMounted, menuSettings, menuIsOpen, menuActiveView, menuCrashed,
  \* ---- home page (page.tsx) and its map (MapComponent)
  search, buildings, filteredBuildings, showCommercialList, activeBuilding,
  commercialMinSize,  \* the minimum size chosen for the commercial list
  commercialList,     \* the cards the commercial list renders (ids), <<>> in map mode
  activeCategory,     \* the active category chip, or Null
  lastChip,           \* the chip clicked last, or Null
  isSatelliteView,    \* the page's satellite flag
  localSatelliteView, \* the map component's own satellite flag
  isSidebarOpen,
  \* ---- CommercialBuildingsList: its props and the list it renders
  listBuildings, listMinSize, largeCommercialBuildings,
  \* ---- SavedItemsPage and localStorage 'savedItems'
  savedItems,    \* the list held by the page
  savedStorage,  \* what localStorage holds under 'savedItems'
  filterType,    \* the selected type tab
  savedMounted,  \* the page is mounted and its load effect has run
  removedId,     \* the id passed to removeItem last, or Null
  \* ---- the handler that ran last
  event

detectorVars == <<selectedImage, processedImage, isLoading, detectionResult,
                  error, isDragging, lastFile, resultImage, detectorCrashed,
                  reads, requests>>
prefsVars == <<storage, pageMounted, pageSettings, isSaved, pageCrashed,
               menuMounted, menuSettings, menuIsOpen, menuActiveView, menuCrashed>>
listVars == <<listBuildings, listMinSize, largeCommercialBuildings>>
chipVars == <<activeCategory, lastChip>>
shellVars == <<isSatelliteView, localSatelliteView, isSidebarOpen>>
homeVars == <<search, buildings, filteredBuildings, showCommercialList, activeBuilding,
              commercialMinSize, commercialList, chipVars, shellVars, listVars>>
savedVars == <<savedItems, savedStorage, filterType, savedMounted, removedId>>
vars == <<detectorVars, prefsVars, homeVars, savedVars, event>>

\* JavaScript null, for the string-valued state
Null == "null"

(***************************************************************************)
(* RTUDetector                                                             *)
(***************************************************************************)

\* bounds of the detector model
MaxReads == 2
MaxInFlight == 2

\* files the user can pick or drop; file.type.startsWith('image/') holds of
\* the first two
ImageFiles == {"roofA.png", "roofB.png"}
OtherFiles == {"notes.txt"}
Files == ImageFiles \cup OtherFiles

IsImageType(file) == file \in ImageFiles

\* FileReader.readAsDataURL: the data URL of a file
DataURL(file) == "data:" \o file

\* what the endpoint may draw on an image
Annotated(image) == "boxes:" \o image

NoResult == [null |-> TRUE]

\* JSON bodies of a 2xx answer to POST /detect for `image`: well-formed ones
\* (with and without processed_image) and bodies lacking count or detections
ResponseBodies(image) ==
  { [detections |-> <<>>, count |-> 0, processed_image |-> Null],
    [detections |-> <<[confidence |-> 9, bbox |-> <<1, 2, 3, 4>>]>>, count |-> 1,
     processed_image |-> Annotated(image)],
    [detections |-> <<[confidence |-> 5, bbox |-> <<1, 1, 2, 2>>]>>, count |-> 1,
     processed_image |-> Null],
    [detections |-> <<>>, processed_image |-> Null],
    [count |-> 0, processed_image |-> Null] }

\* messages thrown inside handleDetect's try block
FetchFailures == {"Failed to fetch"}
StatusFailures == {"Error: 500 Internal Server Error", "Error: 404 Not Found"}
JsonFailures == {"Unexpected token < in JSON"}

RemoveAt(s, i) == SubSeq(s, 1, i - 1) \o SubSeq(s, i + 1, Len(s))

DetectorInit ==
  /\ selectedImage = Null
  /\ processedImage = Null
  /\ isLoading = FALSE
  /\ detectionResult = NoResult
  /\ error = Null
  /\ isDragging = FALSE
  /\ lastFile = Null
  /\ resultImage = Null
  /\ detectorCrashed = FALSE
  /\ reads = <<>>
  /\ requests = <<>>

\* the part handleFileChange and handleDrop share once a file is at hand
AcceptFileUnchecked(file) ==
  /\ processedImage' = Null
  /\ detectionResult' = NoResult
  /\ resultImage' = Null
  /\ error' = Null
  /\ reads' = Append(reads, file)
AcceptFile(file) ==
  IF ~IsImageType(file)
  THEN /\ error' = "Please select an image file"
       /\ UNCHANGED <<processedImage, detectionResult, resultImage, reads>>
  ELSE /\ processedImage' = Null
       /\ detectionResult' = NoResult
       /\ resultImage' = Null
       /\ error' = Null
       /\ reads' = Append(reads, file)

handleFileChange(file) ==
  /\ Len(reads) < MaxReads
  /\ AcceptFile(file)
  /\ UNCHANGED <<selectedImage, isLoading, isDragging, requests>>
  /\ ~detectorCrashed
  /\ UNCHANGED detectorCrashed
  /\ lastFile' = file
  /\ event' = "fileChange"
  /\ UNCHANGED <<prefsVars, homeVars, savedVars>>

handleDrop(file) ==
  /\ Len(reads) < MaxReads
  /\ isDragging' = FALSE
  /\ AcceptFile(file)
  /\ UNCHANGED <<selectedImage, isLoading, requests>>
  /\ ~detectorCrashed
  /\ UNCHANGED detectorCrashed
  /\ lastFile' = file
  /\ event' = "drop"
  /\ UNCHANGED <<prefsVars, homeVars, savedVars>>

handleDragOver ==
  /\ isDragging' = TRUE
  /\ UNCHANGED <<selectedImage, processedImage, isLoading, detectionResult,
                 error, reads, requests>>
  /\ ~detectorCrashed
  /\ UNCHANGED <<lastFile, resultImage, detectorCrashed>>
  /\ event' = "dragOver"
  /\ UNCHANGED <<prefsVars, homeVars, savedVars>>

handleDragLeave ==
  /\ isDragging' = FALSE
  /\ UNCHANGED <<selectedImage, processedImage, isLoading, detectionResult,
                 error, reads, requests>>
  /\ ~detectorCrashed
  /\ UNCHANGED <<lastFile, resultImage, detectorCrashed>>
  /\ event' = "dragLeave"
  /\ UNCHANGED <<prefsVars, homeVars, savedVars>>

\* reader.onload of any of the started reads
ReaderOnload(i) ==
  /\ i \in DOMAIN reads
  /\ selectedImage' = DataURL(reads[i])
  /\ reads' = RemoveAt(reads, i)
  /\ UNCHANGED <<processedImage, isLoading, detectionResult, error, isDragging,
                 requests>>
  /\ ~detectorCrashed
  /\ UNCHANGED <<lastFile, resultImage, detectorCrashed>>
  /\ event' = "readerOnload"
  /\ UNCHANGED <<prefsVars, homeVars, savedVars>>

\* the detect button's disabled attribute
DetectDisabledNoLoading == selectedImage = Null
DetectDisabled == isLoading \/ selectedImage = Null

\* handleDetect up to its first await
handleDetect ==
  IF selectedImage = Null
  THEN /\ error' = "Please select an image first"
       /\ UNCHANGED <<isLoading, requests>>
  ELSE /\ isLoading' = TRUE
       /\ error' = Null
       /\ requests' = Append(requests, [image |-> selectedImage, reset |-> FALSE])

\* a click on the detect button: a disabled button dispatches nothing
DetectClick ==
  /\ Len(requests) < MaxInFlight
  /\ IF DetectDisabled
     THEN UNCHANGED <<isLoading, error, requests>>
     ELSE handleDetect
  /\ UNCHANGED <<selectedImage, processedImage, detectionResult, isDragging, reads>>
  /\ ~detectorCrashed
  /\ UNCHANGED <<lastFile, resultImage, detectorCrashed>>
  /\ event' = "detectClick"
  /\ UNCHANGED <<prefsVars, homeVars, savedVars>>

\* the render of a result reads detectionResult.detections.length: it throws
\* when the body has no detections, and the component is unmounted
RenderThrows(result) == "detections" \notin DOMAIN result

\* handleDetect after its awaits: a 2xx answer whose body parses; the state
\* updates are rendered together
DetectSuccess(i, result) ==
  /\ i \in DOMAIN requests
  /\ result \in ResponseBodies(requests[i].image)
  /\ detectionResult' = result
  /\ processedImage' = IF result.processed_image # Null
                       THEN result.processed_image ELSE processedImage
  /\ isLoading' = FALSE
  /\ requests' = RemoveAt(requests, i)
  /\ UNCHANGED <<selectedImage, error, isDragging, reads>>
  /\ ~detectorCrashed
  /\ resultImage' = requests[i].image
  /\ detectorCrashed' = RenderThrows(result)
  /\ UNCHANGED lastFile
  /\ event' = "detectSuccess"
  /\ UNCHANGED <<prefsVars, homeVars, savedVars>>

\* handleDetect's catch and finally: fetch rejected, the status was not ok,
\* or response.json() rejected
DetectFailureRetries(i, message) ==
  /\ i \in DOMAIN requests
  /\ message \in FetchFailures \cup StatusFailures \cup JsonFailures
  /\ error' = message
  /\ UNCHANGED <<isLoading, requests>>
  /\ UNCHANGED <<selectedImage, processedImage, detectionResult, isDragging, reads>>
  /\ ~detectorCrashed
  /\ UNCHANGED <<lastFile, resultImage, detectorCrashed>>
  /\ event' = "detectFailure"
  /\ UNCHANGED <<prefsVars, homeVars, savedVars>>
DetectFailureClearsResult(i, message) ==
  /\ i \in DOMAIN requests
  /\ message \in FetchFailures \cup StatusFailures \cup JsonFailures
  /\ ~detectorCrashed
  /\ error' = message
  /\ isLoading' = FALSE
  /\ requests' = RemoveAt(requests, i)
  /\ detectionResult' = NoResult
  /\ processedImage' = Null
  /\ resultImage' = Null
  /\ UNCHANGED <<selectedImage, isDragging, reads, lastFile, detectorCrashed>>
  /\ event' = "detectFailure"
  /\ UNCHANGED <<prefsVars, homeVars, savedVars>>
DetectFailureNoFinally(i, message) ==
  /\ i \in DOMAIN requests
  /\ message \in FetchFailures \cup StatusFailures \cup JsonFailures
  /\ ~detectorCrashed
  /\ error' = message
  /\ requests' = RemoveAt(requests, i)
  /\ UNCHANGED <<isLoading, selectedImage, processedImage, detectionResult,
                 isDragging, reads, lastFile, resultImage, detectorCrashed>>
  /\ event' = "detectFailure"
  /\ UNCHANGED <<prefsVars, homeVars, savedVars>>
DetectFailure(i, message) ==
  /\ i \in DOMAIN requests
  /\ message \in FetchFailures \cup StatusFailures \cup JsonFailures
  /\ error' = message
  /\ isLoading' = FALSE
  /\ requests' = RemoveAt(requests, i)
  /\ UNCHANGED <<selectedImage, processedImage, detectionResult, isDragging, reads>>
  /\ ~detectorCrashed
  /\ UNCHANGED <<lastFile, resultImage, detectorCrashed>>
  /\ event' = "detectFailure"
  /\ UNCHANGED <<prefsVars, homeVars, savedVars>>

\* the X button over the selected image, shown only while an image is selected
handleResetKeepsResult ==
  /\ selectedImage # Null
  /\ ~detectorCrashed
  /\ selectedImage' = Null
  /\ error' = Null
  /\ lastFile' = Null
  /\ requests' = [i \in DOMAIN requests |-> [requests[i] EXCEPT !.reset = TRUE]]
  /\ UNCHANGED <<processedImage, detectionResult, resultImage, isLoading,
                 isDragging, reads, detectorCrashed>>
  /\ event' = "reset"
  /\ UNCHANGED <<prefsVars, homeVars, savedVars>>
handleReset ==
  /\ selectedImage # Null
  /\ selectedImage' = Null
  /\ processedImage' = Null
  /\ detectionResult' = NoResult
  /\ error' = Null
  /\ requests' = [i \in DOMAIN requests |-> [requests[i] EXCEPT !.reset = TRUE]]
  /\ UNCHANGED <<isLoading, isDragging, reads>>
  /\ ~detectorCrashed
  /\ lastFile' = Null
  /\ resultImage' = Null
  /\ UNCHANGED detectorCrashed
  /\ event' = "reset"
  /\ UNCHANGED <<prefsVars, homeVars, savedVars>>

\* the banner's Dismiss button, shown only while an error is set
DismissError ==
  /\ error # Null
  /\ error' = Null
  /\ UNCHANGED <<selectedImage, processedImage, isLoading, detectionResult,
                 isDragging, reads, requests>>
  /\ ~detectorCrashed
  /\ UNCHANGED <<lastFile, resultImage, detectorCrashed>>
  /\ event' = "dismiss"
  /\ UNCHANGED <<prefsVars, homeVars, savedVars>>

NextDetector ==
  \/ \E file \in Files : handleFileChange(file)
  \/ \E file \in Files : handleDrop(file)
  \/ handleDragOver
  \/ handleDragLeave
  \/ \E i \in 1..MaxReads : ReaderOnload(i)
  \/ DetectClick
  \/ \E i \in 1..MaxInFlight : \E result \in UNION {ResponseBodies(DataURL(f)) : f \in ImageFiles} :
        DetectSuccess(i, result)
  \/ \E i \in 1..MaxInFlight : \E message \in FetchFailures \cup StatusFailures \cup JsonFailures :
        DetectFailure(i, message)
  \/ handleReset
  \/ DismissError

\* the endpoint settles a pending request: the awaits of handleDetect resume,
\* with an answer or with a failure
DetectSettles ==
  \E i \in 1..MaxInFlight :
    \/ \E result \in UNION {ResponseBodies(DataURL(f)) : f \in ImageFiles} :
          DetectSuccess(i, result)
    \/ \E message \in FetchFailures \cup StatusFailures \cup JsonFailures :
          DetectFailure(i, message)

(***************************************************************************)
(* Preferences: localStorage 'userSettings', settings page, hamburger menu *)
(***************************************************************************)

\* a preferences object is a function from property names to values; the
\* UserSettings interface names these four, in this order
KeyOrder == <<"darkMode", "mapType", "notifications", "dataRefreshInterval">>
Keys == {KeyOrder[i] : i \in DOMAIN KeyOrder}
BoolKeys == {"darkMode", "notifications"}
MapTypes == {"standard", "satellite"}
RefreshIntervals == {5, 15, 30, 60}

\* the initial value of both components' useState
Defaults ==
  [darkMode |-> FALSE, mapType |-> "standard", notifications |-> TRUE,
   dataRefreshInterval |-> 15]

\* every complete preferences object
AllPrefs ==
  [darkMode : BOOLEAN, mapType : MapTypes, notifications : BOOLEAN,
   dataRefreshInterval : RefreshIntervals]

\* JavaScript null as the value of the settings state
NullSettings == [null |-> TRUE]

\* { ...obj, [key]: value }; spreading null contributes no property
Spread(obj, key, value) ==
  IF obj = NullSettings
  THEN [k \in {key} |-> value]
  ELSE [k \in (DOMAIN obj) \cup {key} |-> IF k = key THEN value ELSE obj[k]]

\* !obj[key] in JavaScript: a missing property is undefined, hence falsy
NotProperty(obj, key) == IF key \in DOMAIN obj THEN ~obj[key] ELSE TRUE

\* ---- JSON text, as its sequence of tokens
Quote(s) == "\"" \o s \o "\""
QuotableStrings == Keys \cup MapTypes
NumberRange == 0..60

\* JSON.stringify of a property value
ValueToken(key, value) ==
  IF key \in BoolKeys THEN (IF value THEN "true" ELSE "false")
  ELSE IF key = "mapType" THEN Quote(value)
  ELSE ToString(value)

RECURSIVE MemberTokens(_, _)
MemberTokens(obj, keys) ==
  IF keys = <<>> THEN <<>>
  ELSE LET k == Head(keys)
           rest == MemberTokens(obj, Tail(keys))
       IN  IF k \notin DOMAIN obj THEN rest
           ELSE <<Quote(k), ":", ValueToken(k, obj[k])>>
                  \o (IF rest = <<>> THEN <<>> ELSE <<",">> \o rest)

\* JSON.stringify of the settings state
JSONstringify(obj) ==
  IF obj = NullSettings THEN <<"null">>
  ELSE <<"{">> \o MemberTokens(obj, KeyOrder) \o <<"}">>

IsStringToken(tok) == \E s \in QuotableStrings : Quote(s) = tok
IsNumberToken(tok) == \E n \in NumberRange : ToString(n) = tok
IsValueToken(tok) == tok \in {"true", "false"} \/ IsStringToken(tok) \/ IsNumberToken(tok)

\* the value a JSON literal denotes
TokenValue(tok) ==
  IF tok = "true" THEN TRUE
  ELSE IF tok = "false" THEN FALSE
  ELSE IF IsStringToken(tok) THEN CHOOSE s \in QuotableStrings : Quote(s) = tok
  ELSE CHOOSE n \in NumberRange : ToString(n) = tok

EmptyObject == [k \in {} |-> TRUE]
ParseError == [ok |-> FALSE, value |-> NullSettings]

\* the members of an object after its opening brace: "key" : value { , "key" : value }
RECURSIVE ParseMembers(_, _)
ParseMembers(toks, acc) ==
  IF Len(toks) < 3 \/ ~IsStringToken(toks[1]) \/ toks[2] # ":" \/ ~IsValueToken(toks[3])
  THEN ParseError
  ELSE LET obj == Spread(acc, TokenValue(toks[1]), TokenValue(toks[3]))
       IN  IF Len(toks) = 3 THEN [ok |-> TRUE, value |-> obj]
           ELSE IF toks[4] # "," THEN ParseError
           ELSE ParseMembers(SubSeq(toks, 5, Len(toks)), obj)

\* JSON.parse: ok is FALSE where it throws a SyntaxError
JSONparse(text) ==
  IF text = <<"null">> THEN [ok |-> TRUE, value |-> NullSettings]
  ELSE IF Len(text) < 2 \/ Head(text) # "{" \/ text[Len(text)] # "}" THEN ParseError
  ELSE IF Len(text) = 2 THEN [ok |-> TRUE, value |-> EmptyObject]
  ELSE ParseMembers(SubSeq(text, 2, Len(text) - 1), EmptyObject)

\* localStorage.getItem('userSettings'): null when the key is absent
NoItem == [present |-> FALSE, text |-> <<>>]
Item(text) == [present |-> TRUE, text |-> text]

\* what a browser profile may hold under the key before the first write of
\* this session: nothing, an empty string, truncated text, the text null, an
\* object lacking properties, and an object written by an earlier session
TruncatedText == <<"{", Quote("darkMode"), ":">>
PartialText == <<"{", Quote("darkMode"), ":", "true", "}">>
EarlierText ==
  JSONstringify([darkMode |-> TRUE, mapType |-> "satellite", notifications |-> TRUE,
                 dataRefreshInterval |-> 60])
InitialItems ==
  {NoItem, Item(<<>>), Item(TruncatedText), Item(<<"null">>), Item(PartialText),
   Item(EarlierText)}

\* the load effect both components run on mount: the stored text when there
\* is one (an empty string is falsy) and it parses, else the useState value
LoadSettingsUnparsed(item) == Defaults
LoadSettings(item) ==
  IF item.present /\ item.text # <<>>
  THEN LET parsed == JSONparse(item.text)
       IN  IF parsed.ok THEN parsed.value ELSE Defaults
  ELSE Defaults

\* the (setting, value) pairs the controls of either settings view pass to
\* handleSettingChange when `settings` is what was rendered
Choices(settings) ==
  {<<"darkMode", NotProperty(settings, "darkMode")>>,
   <<"notifications", NotProperty(settings, "notifications")>>}
  \cup {<<"mapType", m>> : m \in MapTypes}
  \cup {<<"dataRefreshInterval", n>> : n \in RefreshIntervals}

PrefsInit ==
  /\ storage \in InitialItems
  /\ pageMounted = FALSE
  /\ pageSettings = Defaults
  /\ isSaved = FALSE
  /\ pageCrashed = FALSE
  /\ menuMounted = FALSE
  /\ menuSettings = Defaults
  /\ menuIsOpen = FALSE
  /\ menuActiveView = "menu"
  /\ menuCrashed = FALSE

pageVars == <<pageMounted, pageSettings, isSaved, pageCrashed>>
menuVars == <<menuMounted, menuSettings, menuIsOpen, menuActiveView, menuCrashed>>

\* ---- settings page (app/settings/page.tsx)

\* navigating to /settings: first render, then the load effect and its render,
\* which reads settings.darkMode and throws when settings is null
SettingsPageMount ==
  /\ ~pageMounted /\ ~menuMounted
  /\ pageMounted' = TRUE
  /\ pageSettings' = LoadSettings(storage)
  /\ isSaved' = FALSE
  /\ pageCrashed' = (LoadSettings(storage) = NullSettings)
  /\ UNCHANGED <<storage, menuVars>>
  /\ event' = "pageMount"
  /\ UNCHANGED <<detectorVars, homeVars, savedVars>>

\* leaving the page drops its state
SettingsPageUnmount ==
  /\ pageMounted
  /\ pageMounted' = FALSE
  /\ pageSettings' = Defaults
  /\ isSaved' = FALSE
  /\ pageCrashed' = FALSE
  /\ UNCHANGED <<storage, menuVars>>
  /\ event' = "pageUnmount"
  /\ UNCHANGED <<detectorVars, homeVars, savedVars>>

PageHandleSettingChange(setting, value) ==
  /\ pageMounted /\ ~pageCrashed
  /\ <<setting, value>> \in Choices(pageSettings)
  /\ pageSettings' = Spread(pageSettings, setting, value)
  /\ isSaved' = FALSE
  /\ UNCHANGED <<storage, pageMounted, pageCrashed, menuVars>>
  /\ event' = "pageChange"
  /\ UNCHANGED <<detectorVars, homeVars, savedVars>>

\* the text saveSettings stores
SavedTextDefaults(settings) == JSONstringify(Defaults)
SavedText(settings) == JSONstringify(settings)

saveSettings ==
  /\ pageMounted /\ ~pageCrashed
  /\ storage' = Item(SavedText(pageSettings))
  /\ isSaved' = TRUE
  /\ UNCHANGED <<pageMounted, pageSettings, pageCrashed, menuVars>>
  /\ event' = "pageSave"
  /\ UNCHANGED <<detectorVars, homeVars, savedVars>>

\* the 2 s timer saveSettings starts
SavedTimeout ==
  /\ pageMounted /\ ~pageCrashed /\ isSaved
  /\ isSaved' = FALSE
  /\ UNCHANGED <<storage, pageMounted, pageSettings, pageCrashed, menuVars>>
  /\ event' = "savedTimeout"
  /\ UNCHANGED <<detectorVars, homeVars, savedVars>>

\* ---- hamburger menu (components/HamburgerMenu.tsx)

\* the settings panel is rendered, and reads settings.darkMode
PanelShown(isOpen, activeView) == isOpen /\ activeView = "settings"

MenuMount ==
  /\ ~pageMounted /\ ~menuMounted
  /\ menuMounted' = TRUE
  /\ menuSettings' = LoadSettings(storage)
  /\ menuIsOpen' = FALSE
  /\ menuActiveView' = "menu"
  /\ menuCrashed' = FALSE
  /\ UNCHANGED <<storage, pageVars>>
  /\ event' = "menuMount"
  /\ UNCHANGED <<detectorVars, homeVars, savedVars>>

MenuUnmount ==
  /\ menuMounted
  /\ menuMounted' = FALSE
  /\ menuSettings' = Defaults
  /\ menuIsOpen' = FALSE
  /\ menuActiveView' = "menu"
  /\ menuCrashed' = FALSE
  /\ UNCHANGED <<storage, pageVars>>
  /\ event' = "menuUnmount"
  /\ UNCHANGED <<detectorVars, homeVars, savedVars>>

\* the hamburger button; backdrop, close button and outside click set false
MenuSetIsOpen(value) ==
  /\ menuMounted /\ ~menuCrashed
  /\ value = ~menuIsOpen
  /\ menuIsOpen' = value
  /\ menuCrashed' = (PanelShown(value, menuActiveView) /\ menuSettings = NullSettings)
  /\ UNCHANGED <<storage, menuMounted, menuSettings, menuActiveView, pageVars>>
  /\ event' = "menuOpen"
  /\ UNCHANGED <<detectorVars, homeVars, savedVars>>

\* the Menu / Saved / Settings tabs of the open sidebar
MenuSetActiveView(view) ==
  /\ menuMounted /\ ~menuCrashed /\ menuIsOpen
  /\ menuActiveView' = view
  /\ menuCrashed' = (PanelShown(menuIsOpen, view) /\ menuSettings = NullSettings)
  /\ UNCHANGED <<storage, menuMounted, menuSettings, menuIsOpen, pageVars>>
  /\ event' = "menuView"
  /\ UNCHANGED <<detectorVars, homeVars, savedVars>>

\* the text handleSettingChange stores: built from the settings of the render
\* the handler closes over
MenuStoredTextStale(settings, setting, value) == JSONstringify(settings)
MenuStoredText(settings, setting, value) == JSONstringify(Spread(settings, setting, value))

\* the updater runs on the state of the last commit, which is also what the
\* handler's closure holds
MenuHandleSettingChange(setting, value) ==
  /\ menuMounted /\ ~menuCrashed /\ PanelShown(menuIsOpen, menuActiveView)
  /\ <<setting, value>> \in Choices(menuSettings)
  /\ menuSettings' = Spread(menuSettings, setting, value)
  /\ storage' = Item(MenuStoredText(menuSettings, setting, value))
  /\ UNCHANGED <<menuMounted, menuIsOpen, menuActiveView, menuCrashed, pageVars>>
  /\ event' = "menuChange"
  /\ UNCHANGED <<detectorVars, homeVars, savedVars>>

AllChoices == UNION {Choices(p) : p \in AllPrefs}

NextPrefs ==
  \/ SettingsPageMount
  \/ SettingsPageUnmount
  \/ \E c \in AllChoices : PageHandleSettingChange(c[1], c[2])
  \/ saveSettings
  \/ SavedTimeout
  \/ MenuMount
  \/ MenuUnmount
  \/ \E value \in BOOLEAN : MenuSetIsOpen(value)
  \/ \E view \in {"menu", "saved", "settings"} : MenuSetActiveView(view)
  \/ \E c \in AllChoices : MenuHandleSettingChange(c[1], c[2])

(***************************************************************************)
(* Home page (app/page.tsx): building search, and the map's active         *)
(* building (MapComponent)                                                 *)
(***************************************************************************)

\* text is a sequence of one-character strings

\* the building records of the page; coordinates are left out, no handler
\* reads them
sampleBuildings ==
  <<
    [id |-> "1",
     \* Downtown Office Complex
     name |->
      <<"D", "o", "w", "n", "t", "o", "w", "n", " ", "O", "f", "f", "i", "c", "e", " ", "C",
        "o", "m", "p", "l", "e", "x">>,
     \* 123 Main St, Pittsburgh, PA 15213
     address |->
      <<"1", "2", "3", " ", "M", "a", "i", "n", " ", "S", "t", ",", " ", "P", "i", "t", "t",
        "s", "b", "u", "r", "g", "h", ",", " ", "P", "A", " ", "1", "5", "2", "1", "3">>,
     rtuCount |-> 12, type |-> "commercial", squareFeet |-> 125000],
    [id |-> "2",
     \* Riverside Apartments
     name |->
      <<"R", "i", "v", "e", "r", "s", "i", "d", "e", " ", "A", "p", "a", "r", "t", "m", "e",
        "n", "t", "s">>,
     \* 456 River Ave, Pittsburgh, PA 15222
     address |->
      <<"4", "5", "6", " ", "R", "i", "v", "e", "r", " ", "A", "v", "e", ",", " ", "P", "i",
        "t", "t", "s", "b", "u", "r", "g", "h", ",", " ", "P", "A", " ", "1", "5", "2", "2",
        "2">>,
     rtuCount |-> 8, type |-> "residential", squareFeet |-> 85000],
    [id |-> "3",
     \* Tech Innovation Center
     name |->
      <<"T", "e", "c", "h", " ", "I", "n", "n", "o", "v", "a", "t", "i", "o", "n", " ", "C",
        "e", "n", "t", "e", "r">>,
     \* 789 Innovation Dr, Pittsburgh, PA 15203
     address |->
      <<"7", "8", "9", " ", "I", "n", "n", "o", "v", "a", "t", "i", "o", "n", " ", "D", "r",
        ",", " ", "P", "i", "t", "t", "s", "b", "u", "r", "g", "h", ",", " ", "P", "A", " ",
        "1", "5", "2", "0", "3">>,
     rtuCount |-> 15, type |-> "commercial", squareFeet |-> 180000],
    [id |-> "4",
     \* Shadyside Medical Center
     name |->
      <<"S", "h", "a", "d", "y", "s", "i", "d", "e", " ", "M", "e", "d", "i", "c", "a", "l",
        " ", "C", "e", "n", "t", "e", "r">>,
     \* 321 Health Ave, Pittsburgh, PA 15232
     address |->
      <<"3", "2", "1", " ", "H", "e", "a", "l", "t", "h", " ", "A", "v", "e", ",", " ", "P",
        "i", "t", "t", "s", "b", "u", "r", "g", "h", ",", " ", "P", "A", " ", "1", "5", "2",
        "3", "2">>,
     rtuCount |-> 20, type |-> "commercial", squareFeet |-> 210000],
    [id |-> "5",
     \* Oakland University Buildings
     name |->
      <<"O", "a", "k", "l", "a", "n", "d", " ", "U", "n", "i", "v", "e", "r", "s", "i", "t",
        "y", " ", "B", "u", "i", "l", "d", "i", "n", "g", "s">>,
     \* 567 Academic Way, Pittsburgh, PA 15213
     address |->
      <<"5", "6", "7", " ", "A", "c", "a", "d", "e", "m", "i", "c", " ", "W", "a", "y", ",",
        " ", "P", "i", "t", "t", "s", "b", "u", "r", "g", "h", ",", " ", "P", "A", " ", "1",
        "5", "2", "1", "3">>,
     rtuCount |-> 18, type |-> "educational", squareFeet |-> 150000],
    [id |-> "6",
     \* U.S. Steel Tower
     name |->
      <<"U", ".", "S", ".", " ", "S", "t", "e", "e", "l", " ", "T", "o", "w", "e", "r">>,
     \* 600 Grant St, Pittsburgh, PA 15219
     address |->
      <<"6", "0", "0", " ", "G", "r", "a", "n", "t", " ", "S", "t", ",", " ", "P", "i", "t",
        "t", "s", "b", "u", "r", "g", "h", ",", " ", "P", "A", " ", "1", "5", "2", "1", "9">>,
     rtuCount |-> 25, type |-> "commercial", squareFeet |-> 2300000],
    [id |-> "7",
     \* One PPG Place
     name |->
      <<"O", "n", "e", " ", "P", "P", "G", " ", "P", "l", "a", "c", "e">>,
     \* 1 PPG Pl, Pittsburgh, PA 15222
     address |->
      <<"1", " ", "P", "P", "G", " ", "P", "l", ",", " ", "P", "i", "t", "t", "s", "b", "u",
        "r", "g", "h", ",", " ", "P", "A", " ", "1", "5", "2", "2", "2">>,
     rtuCount |-> 22, type |-> "commercial", squareFeet |-> 1500000],
    [id |-> "8",
     \* BNY Mellon Center
     name |->
      <<"B", "N", "Y", " ", "M", "e", "l", "l", "o", "n", " ", "C", "e", "n", "t", "e", "r">>,
     \* 500 Grant St, Pittsburgh, PA 15219
     address |->
      <<"5", "0", "0", " ", "G", "r", "a", "n", "t", " ", "S", "t", ",", " ", "P", "i", "t",
        "t", "s", "b", "u", "r", "g", "h", ",", " ", "P", "A", " ", "1", "5", "2", "1", "9">>,
     rtuCount |-> 18, type |-> "commercial", squareFeet |-> 1200000],
    [id |-> "9",
     \* Fifth Avenue Place
     name |->
      <<"F", "i", "f", "t", "h", " ", "A", "v", "e", "n", "u", "e", " ", "P", "l", "a", "c",
        "e">>,
     \* 120 Fifth Ave, Pittsburgh, PA 15222
     address |->
      <<"1", "2", "0", " ", "F", "i", "f", "t", "h", " ", "A", "v", "e", ",", " ", "P", "i",
        "t", "t", "s", "b", "u", "r", "g", "h", ",", " ", "P", "A", " ", "1", "5", "2", "2",
        "2">>,
     rtuCount |-> 16, type |-> "commercial", squareFeet |-> 780000],
    [id |-> "10",
     \* Koppers Building
     name |->
      <<"K", "o", "p", "p", "e", "r", "s", " ", "B", "u", "i", "l", "d", "i", "n", "g">>,
     \* 436 Seventh Ave, Pittsburgh, PA 15219
     address |->
      <<"4", "3", "6", " ", "S", "e", "v", "e", "n", "t", "h", " ", "A", "v", "e", ",", " ",
        "P", "i", "t", "t", "s", "b", "u", "r", "g", "h", ",", " ", "P", "A", " ", "1", "5",
        "2", "1", "9">>,
     rtuCount |-> 14, type |-> "commercial", squareFeet |-> 350000]
  >>

\* the state holds building lists as the lists of their ids, and the active
\* building as its id: the records themselves are never written
Ids(list) == [i \in DOMAIN list |-> list[i].id]
Building(id) == CHOOSE b \in {sampleBuildings[i] : i \in DOMAIN sampleBuildings} : b.id = id

\* the repository the page starts from: useState(sampleBuildings), and what a
\* fetch in its place may deliver (nothing, or fewer buildings)
RepositorySizes == {0, 3, Len(sampleBuildings)}
Repositories == {Ids(SubSeq(sampleBuildings, 1, n)) : n \in RepositorySizes}

\* bound on the text typed into the search box
MaxQueryLen == 2
QueryChars == {"e", "E", " "}
RECURSIVE TextsOfLen(_)
TextsOfLen(n) ==
  IF n = 0 THEN {<<>>}
  ELSE {Append(t, c) : t \in TextsOfLen(n - 1), c \in QueryChars}
Queries == UNION {TextsOfLen(n) : n \in 0..MaxQueryLen}

UpperCase == <<"A", "B", "C", "D", "E", "F", "G", "H", "I", "J", "K", "L", "M",
               "N", "O", "P", "Q", "R", "S", "T", "U", "V", "W", "X", "Y", "Z">>
LowerCase == <<"a", "b", "c", "d", "e", "f", "g", "h", "i", "j", "k", "l", "m",
               "n", "o", "p", "q", "r", "s", "t", "u", "v", "w", "x", "y", "z">>

\* String.prototype.toLowerCase
LowerChar(c) ==
  IF \E i \in DOMAIN UpperCase : UpperCase[i] = c
  THEN LowerCase[CHOOSE i \in DOMAIN UpperCase : UpperCase[i] = c]
  ELSE c
toLowerCase(text) == [i \in DOMAIN text |-> LowerChar(text[i])]

\* String.prototype.trim
RECURSIVE trimStart(_)
trimStart(text) ==
  IF text # <<>> /\ Head(text) = " " THEN trimStart(Tail(text)) ELSE text
RECURSIVE trimEnd(_)
trimEnd(text) ==
  IF text # <<>> /\ text[Len(text)] = " "
  THEN trimEnd(SubSeq(text, 1, Len(text) - 1)) ELSE text
trim(text) == trimEnd(trimStart(text))

\* String.prototype.includes
includes(text, part) ==
  \E i \in 0..(Len(text) - Len(part)) : SubSeq(text, i + 1, i + Len(part)) = part

NoBuilding == Null

\* initial selection of the commercial list's minimum size
InitialMinSize == 500000
\* the three minimum-size buttons
MinSizes == {100000, 500000, 1000000}
\* the category chips
categoryButtons ==
  <<"restaurants", "hotels", "things", "museums", "transit", "pharmacies", "atms">>
CategoryIds == {categoryButtons[i] : i \in DOMAIN categoryButtons}

HomeInit ==
  /\ search = <<>>
  /\ buildings \in Repositories
  /\ filteredBuildings = buildings
  /\ showCommercialList = FALSE
  /\ activeBuilding = NoBuilding
  /\ commercialMinSize = InitialMinSize
  /\ commercialList = <<>>
  /\ activeCategory = Null
  /\ lastChip = Null
  /\ isSatelliteView = TRUE
  /\ localSatelliteView = TRUE
  /\ isSidebarOpen = FALSE

\* the predicate of handleSearch's buildings.filter
Matches(id, query) ==
  \/ includes(toLowerCase(Building(id).name), toLowerCase(query))
  \/ includes(toLowerCase(Building(id).address), toLowerCase(query))

\* Array.prototype.filter keeps the matching elements in order
FilterBuildingsReversed(list, query) ==
  LET kept == SelectSeq(list, LAMBDA id : Matches(id, query))
  IN  [i \in 1..Len(kept) |-> kept[Len(kept) + 1 - i]]
RECURSIVE FilterBuildings(_, _)
FilterBuildings(list, query) ==
  IF list = <<>> THEN <<>>
  ELSE IF Matches(Head(list), query)
       THEN <<Head(list)>> \o FilterBuildings(Tail(list), query)
       ELSE FilterBuildings(Tail(list), query)

\* the value handleSearch passes to setFilteredBuildings
handleSearchNoTrim(list, query) ==
  IF query = <<>> THEN list ELSE FilterBuildings(list, query)
handleSearchResult(list, query) ==
  IF trim(query) = <<>> THEN list ELSE FilterBuildings(list, query)

\* ---- the commercial list: filter by type and size, then sort by size

\* the predicate of the commercial list's filter
IsLargeCommercial(building, minSize) ==
  building.type = "commercial" /\ building.squareFeet >= minSize

\* .filter(...): a new array with the retained buildings in order
FilterLargeCommercial(list, minSize) ==
  SelectSeq(list, LAMBDA b : IsLargeCommercial(b, minSize))

\* the comparator (a, b) => b.squareFeet - a.squareFeet
compareSize(a, b) == b.squareFeet - a.squareFeet

\* Array.prototype.sort is stable: an element goes behind every element the
\* comparator does not put after it
InsertBeforeEqual(sorted, b) ==
  LET before == {i \in DOMAIN sorted : compareSize(sorted[i], b) < 0}
      n == Cardinality(before)
  IN  SubSeq(sorted, 1, n) \o <<b>> \o SubSeq(sorted, n + 1, Len(sorted))
InsertBySize(sorted, b) ==
  LET before == {i \in DOMAIN sorted : compareSize(sorted[i], b) <= 0}
      n == Cardinality(before)
  IN  SubSeq(sorted, 1, n) \o <<b>> \o SubSeq(sorted, n + 1, Len(sorted))
RECURSIVE SortFrom(_, _)
SortFrom(sorted, rest) ==
  IF rest = <<>> THEN sorted
  ELSE SortFrom(InsertBySize(sorted, Head(rest)), Tail(rest))
\* .sort(compareSize): the receiver array, reordered in place
SortBySize(list) == SortFrom(<<>>, list)

\* the records of a list of ids
Records(ids) == [i \in DOMAIN ids |-> Building(ids[i])]

\* sampleBuildings.filter(...).sort(...) of the page's commercial list: what
\* the repository array holds afterwards and the list that is rendered.
\* sort reorders the array filter returned, not the repository.
\* (sampleBuildings and the buildings state are the same array: the state is
\* initialised with it and setBuildings is never called)
CommercialRenderSortsRepository(repository, minSize) ==
  LET sorted == SortBySize(Records(repository))
  IN  [repository |-> Ids(sorted),
       list |-> Ids(FilterLargeCommercial(sorted, minSize))]
CommercialRender(repository, minSize) ==
  LET filtered == FilterLargeCommercial(Records(repository), minSize)
      sorted == SortBySize(filtered)
  IN  [repository |-> repository, list |-> Ids(sorted)]

\* the render that follows a handler of the page: the commercial list is
\* computed again whenever it is shown
RenderHome(show, minSize) ==
  LET r == CommercialRender(buildings, minSize)
  IN  IF show
      THEN buildings' = r.repository /\ commercialList' = r.list
      ELSE buildings' = buildings /\ commercialList' = <<>>

\* a handler that leaves view mode and minimum size alone
RenderMapView ==
  /\ showCommercialList' = FALSE
  /\ UNCHANGED commercialMinSize
  /\ RenderHome(FALSE, commercialMinSize)
RenderSameView ==
  /\ UNCHANGED <<showCommercialList, commercialMinSize>>
  /\ RenderHome(showCommercialList, commercialMinSize)

\* the input's onChange: setSearch(e.target.value)
SearchBarOnChange(text) ==
  /\ text # search
  /\ search' = text
  /\ RenderSameView
  /\ UNCHANGED <<filteredBuildings, activeBuilding, chipVars, shellVars, listVars>>
  /\ event' = "type"
  /\ UNCHANGED <<detectorVars, prefsVars, savedVars>>

\* the clear button, rendered while the box holds text
SearchBarClear ==
  /\ search # <<>>
  /\ search' = <<>>
  /\ RenderSameView
  /\ UNCHANGED <<filteredBuildings, activeBuilding, chipVars, shellVars, listVars>>
  /\ event' = "clear"
  /\ UNCHANGED <<detectorVars, prefsVars, savedVars>>

\* the search button and the Enter key: handleSearch
handleSearchOnFiltered ==
  /\ filteredBuildings' = handleSearchResult(filteredBuildings, search)
  /\ RenderSameView
  /\ UNCHANGED <<search, activeBuilding, chipVars, shellVars, listVars>>
  /\ event' = "search"
  /\ UNCHANGED <<detectorVars, prefsVars, savedVars>>
handleSearch ==
  /\ filteredBuildings' = handleSearchResult(buildings, search)
  /\ RenderSameView
  /\ UNCHANGED <<search, activeBuilding, chipVars, shellVars, listVars>>
  /\ event' = "search"
  /\ UNCHANGED <<detectorVars, prefsVars, savedVars>>

\* the suggestions a parent passes to the search bar
Suggestions == TextsOfLen(MaxQueryLen)

\* the dropdown is opened by typing; the search button, Enter, the clear
\* button, a suggestion click and the blur of the input close it
showSuggestions == event = "type"

\* the suggestions listed in the dropdown
filteredSuggestions ==
  {suggestion \in Suggestions :
     includes(toLowerCase(suggestion), toLowerCase(search))}

\* a suggestion's onClick: onChange(suggestion), then the handleSearch of the
\* current render, whose closure holds the text of that render
SuggestionClick(suggestion) ==
  /\ showSuggestions
  /\ search # <<>>
  /\ suggestion \in filteredSuggestions
  /\ search' = suggestion
  /\ filteredBuildings' = handleSearchResult(buildings, search)
  /\ RenderSameView
  /\ UNCHANGED <<activeBuilding, chipVars, shellVars, listVars>>
  /\ event' = "suggestion"
  /\ UNCHANGED <<detectorVars, prefsVars, savedVars>>

\* the map is rendered in map mode only
MapMounted == ~showCommercialList

\* a marker's onClick; the map has a marker for each building it is given
MarkerClick(i) ==
  /\ MapMounted
  /\ i \in DOMAIN filteredBuildings
  /\ activeBuilding' = filteredBuildings[i]
  /\ RenderSameView
  /\ UNCHANGED <<search, filteredBuildings, chipVars, shellVars, listVars>>
  /\ event' = "marker"
  /\ UNCHANGED <<detectorVars, prefsVars, savedVars>>

\* the InfoWindow's onCloseClick and the info card's close button
CloseActiveBuilding ==
  /\ MapMounted
  /\ activeBuilding # NoBuilding
  /\ activeBuilding' = NoBuilding
  /\ RenderSameView
  /\ UNCHANGED <<search, filteredBuildings, chipVars, shellVars, listVars>>
  /\ event' = "close"
  /\ UNCHANGED <<detectorVars, prefsVars, savedVars>>

\* the floating button: the list replaces the map, whose state is dropped
ShowCommercialList ==
  /\ ~showCommercialList
  /\ showCommercialList' = TRUE
  /\ activeBuilding' = NoBuilding
  /\ UNCHANGED commercialMinSize
  /\ RenderHome(TRUE, commercialMinSize)
  /\ UNCHANGED <<search, filteredBuildings, chipVars, shellVars, listVars>>
  /\ event' = "showList"
  /\ UNCHANGED <<detectorVars, prefsVars, savedVars>>

\* Back to Map: a new MapComponent mounts, useState(null) and
\* useState(isSatelliteView)
BackToMapDefaultView ==
  /\ showCommercialList
  /\ showCommercialList' = FALSE
  /\ activeBuilding' = NoBuilding
  /\ localSatelliteView' = FALSE
  /\ UNCHANGED commercialMinSize
  /\ RenderHome(FALSE, commercialMinSize)
  /\ UNCHANGED <<search, filteredBuildings, chipVars, isSatelliteView,
                 isSidebarOpen, listVars>>
  /\ event' = "backToMap"
  /\ UNCHANGED <<detectorVars, prefsVars, savedVars>>
BackToMap ==
  /\ showCommercialList
  /\ showCommercialList' = FALSE
  /\ activeBuilding' = NoBuilding
  /\ localSatelliteView' = isSatelliteView
  /\ UNCHANGED commercialMinSize
  /\ RenderHome(FALSE, commercialMinSize)
  /\ UNCHANGED <<search, filteredBuildings, chipVars, isSatelliteView,
                 isSidebarOpen, listVars>>
  /\ event' = "backToMap"
  /\ UNCHANGED <<detectorVars, prefsVars, savedVars>>

\* the minimum-size buttons of the commercial list
SetCommercialMinSize(size) ==
  /\ showCommercialList
  /\ commercialMinSize' = size
  /\ UNCHANGED showCommercialList
  /\ RenderHome(TRUE, size)
  /\ UNCHANGED <<search, filteredBuildings, activeBuilding, chipVars, shellVars,
                 listVars>>
  /\ event' = "minSize"
  /\ UNCHANGED <<detectorVars, prefsVars, savedVars>>

\* a category chip's onClick
CategoryAfterClickKeepsOther(active, categoryId) ==
  IF active = Null THEN categoryId ELSE Null
CategoryAfterClick(active, categoryId) ==
  IF active = categoryId THEN Null ELSE categoryId
handleCategoryClick(categoryId) ==
  /\ activeCategory' = CategoryAfterClick(activeCategory, categoryId)
  /\ lastChip' = categoryId
  /\ RenderSameView
  /\ UNCHANGED <<search, filteredBuildings, activeBuilding, shellVars, listVars>>
  /\ event' = "category"
  /\ UNCHANGED <<detectorVars, prefsVars, savedVars>>

\* the menu button of the top bar
ToggleSidebar ==
  /\ isSidebarOpen' = ~isSidebarOpen
  /\ RenderSameView
  /\ UNCHANGED <<search, filteredBuildings, activeBuilding, chipVars,
                 isSatelliteView, localSatelliteView, listVars>>
  /\ event' = "sidebar"
  /\ UNCHANGED <<detectorVars, prefsVars, savedVars>>

\* the Satellite and Map buttons of the map: handleSatelliteToggle
handleSatelliteToggle(value) ==
  /\ MapMounted
  /\ localSatelliteView' = value
  /\ isSatelliteView' = value
  /\ RenderSameView
  /\ UNCHANGED <<search, filteredBuildings, activeBuilding, chipVars,
                 isSidebarOpen, listVars>>
  /\ event' = IF value THEN "satellite" ELSE "map"
  /\ UNCHANGED <<detectorVars, prefsVars, savedVars>>

NextSearch ==
  \/ \E text \in Queries : SearchBarOnChange(text)
  \/ SearchBarClear
  \/ handleSearch
  \/ \E i \in 1..Len(sampleBuildings) : MarkerClick(i)
  \/ CloseActiveBuilding
  \/ ShowCommercialList
  \/ BackToMap
  \/ \E size \in MinSizes : SetCommercialMinSize(size)

\* the search bar with a list of suggestions
NextSuggest ==
  \/ \E text \in Queries : SearchBarOnChange(text)
  \/ SearchBarClear
  \/ handleSearch
  \/ \E suggestion \in Suggestions : SuggestionClick(suggestion)

\* every handler of the page, with one-character search texts
ViewQueries == TextsOfLen(0) \cup TextsOfLen(1)
NextView ==
  \/ \E text \in ViewQueries : SearchBarOnChange(text)
  \/ SearchBarClear
  \/ handleSearch
  \/ \E i \in 1..Len(sampleBuildings) : MarkerClick(i)
  \/ CloseActiveBuilding
  \/ ShowCommercialList
  \/ BackToMap
  \/ \E size \in MinSizes : SetCommercialMinSize(size)
  \/ \E categoryId \in CategoryIds : handleCategoryClick(categoryId)
  \/ ToggleSidebar
  \/ \E value \in BOOLEAN : handleSatelliteToggle(value)

(***************************************************************************)
(* CommercialBuildingsList: the list it renders from its props             *)
(***************************************************************************)

\* the default of the minSize prop
DefaultMinSize == 100000
\* bound on the length of the buildings prop
MaxListLen == 3

\* buildings for the prop; the component reads type and squareFeet only
PropBuildings ==
  { [id |-> "a", type |-> "commercial", squareFeet |-> 500000],
    [id |-> "b", type |-> "commercial", squareFeet |-> 500000],
    [id |-> "c", type |-> "commercial", squareFeet |-> 1000000],
    [id |-> "d", type |-> "residential", squareFeet |-> 1000000],
    [id |-> "e", type |-> "commercial", squareFeet |-> 99999] }

\* lists of buildings with distinct ids
PropLists ==
  {list \in UNION {[1..n -> PropBuildings] : n \in 0..MaxListLen} :
     \A i, j \in DOMAIN list : i # j => list[i] # list[j]}

\* the minSize prop: left out, or a number
NoMinSize == [given |-> FALSE]
MinSizeProps == {NoMinSize} \cup {[given |-> TRUE, value |-> n] : n \in MinSizes}
minSizeOf(prop) == IF prop.given THEN prop.value ELSE DefaultMinSize

NotRendered == [rendered |-> FALSE]

ListIdle ==
  /\ listBuildings = <<>>
  /\ listMinSize = NoMinSize
  /\ largeCommercialBuildings = NotRendered

ListInit ==
  /\ listBuildings \in PropLists
  /\ listMinSize \in MinSizeProps
  /\ largeCommercialBuildings = NotRendered

\* buildings.filter(...).sort(...): the buildings prop afterwards, and the list
CommercialBuildingsList ==
  LET filtered == FilterLargeCommercial(listBuildings, minSizeOf(listMinSize))
      sorted == SortBySize(filtered)
  IN  /\ largeCommercialBuildings' = [rendered |-> TRUE, list |-> sorted]
      /\ UNCHANGED <<listBuildings, listMinSize>>
      /\ UNCHANGED <<search, buildings, filteredBuildings, showCommercialList,
                     activeBuilding, commercialMinSize, commercialList, chipVars,
                     shellVars>>
      /\ event' = "renderList"
      /\ UNCHANGED <<detectorVars, prefsVars, savedVars>>

\* the parent passes another minimum size
ListSetMinSize(prop) ==
  /\ prop # listMinSize
  /\ listMinSize' = prop
  /\ LET filtered == FilterLargeCommercial(listBuildings, minSizeOf(prop))
     IN  largeCommercialBuildings' = [rendered |-> TRUE, list |-> SortBySize(filtered)]
  /\ UNCHANGED listBuildings
  /\ UNCHANGED <<search, buildings, filteredBuildings, showCommercialList,
                 activeBuilding, commercialMinSize, commercialList, chipVars,
                 shellVars>>
  /\ event' = "listProps"
  /\ UNCHANGED <<detectorVars, prefsVars, savedVars>>

NextCommercialList ==
  \/ CommercialBuildingsList
  \/ \E prop \in MinSizeProps : ListSetMinSize(prop)

(***************************************************************************)
(* Saved items page: localStorage 'savedItems', removal, type tabs         *)
(***************************************************************************)

\* Date.now() at the mounts of the page, in days
MountTimes == {10, 12}

\* a Date object, and the ISO string JSON.stringify writes for it
Date(time) == [time |-> time]
toISOString(date) == [iso |-> date.time]

\* getSampleSavedItems; name, href, thumbnail and description are left out
getSampleSavedItems(now) ==
  << [id |-> "saved1", type |-> "building", savedAt |-> Date(now - 2)],
     [id |-> "saved2", type |-> "search", savedAt |-> Date(now - 5)],
     [id |-> "saved3", type |-> "other", savedAt |-> Date(now - 1)],
     [id |-> "saved4", type |-> "building", savedAt |-> Date(now - 7)] >>

\* JSON.stringify of a list of items: every Date becomes its ISO string
stringifyItems(items) ==
  [form |-> "array",
   items |-> [i \in DOMAIN items |->
                [items[i] EXCEPT !.savedAt = toISOString(@)]]]

\* JSON.parse with the reviver of the load effect: new Date(value) for each
\* savedAt; a text cut short does not parse
parseItems(text) ==
  IF text.form = "array"
  THEN [ok |-> TRUE,
        value |-> [i \in DOMAIN text.items |->
                     [text.items[i] EXCEPT !.savedAt = Date(@.iso)]]]
  ELSE [ok |-> FALSE, value |-> <<>>]

\* localStorage.getItem('savedItems'): null when the key is absent
NoSavedItems == [present |-> FALSE, text |-> [form |-> "empty", items |-> <<>>]]
StoredItems(text) == [present |-> TRUE, text |-> text]

\* what a browser profile may hold under the key when the page is opened:
\* nothing, an empty string, a text cut short, and the list an earlier
\* session of the page wrote after a removal
EmptyItemsText == [form |-> "empty", items |-> <<>>]
CutItemsText == [form |-> "cut", items |-> <<>>]
EarlierItemsText ==
  stringifyItems(SelectSeq(getSampleSavedItems(9), LAMBDA item : item.id # "saved2"))
InitialSavedItems ==
  {NoSavedItems, StoredItems(EmptyItemsText), StoredItems(CutItemsText),
   StoredItems(EarlierItemsText)}

FilterTypes == {"all", "building", "search", "other"}

SavedInit ==
  /\ savedItems = <<>>
  /\ savedStorage \in InitialSavedItems
  /\ filterType = "all"
  /\ savedMounted = FALSE
  /\ removedId = Null

SavedIdle == SavedInit /\ savedStorage = NoSavedItems

\* the load effect: the stored list when there is a text (an empty string is
\* falsy) and it parses, else the sample items
LoadSavedItems(item, now) ==
  IF item.present /\ item.text.form # "empty"
  THEN LET parsed == parseItems(item.text)
       IN  IF parsed.ok THEN parsed.value ELSE getSampleSavedItems(now)
  ELSE getSampleSavedItems(now)

\* the page is opened: useState([]) and useState('all'), then the load effect
SavedItemsPageMount(now) ==
  /\ savedItems' = LoadSavedItems(savedStorage, now)
  /\ filterType' = "all"
  /\ savedMounted' = TRUE
  /\ removedId' = Null
  /\ UNCHANGED savedStorage
  /\ event' = "savedMount"
  /\ UNCHANGED <<detectorVars, prefsVars, homeVars>>

\* the items of the selected tab, each rendered with its remove button
filteredItems ==
  IF filterType = "all"
  THEN savedItems
  ELSE SelectSeq(savedItems, LAMBDA item : item.type = filterType)

\* removeItem, bound to the remove button of each rendered item
removeItemPersistsStale(id) ==
  LET updatedItems == SelectSeq(savedItems, LAMBDA item : item.id # id)
  IN  /\ savedMounted
      /\ \E i \in DOMAIN filteredItems : filteredItems[i].id = id
      /\ savedItems' = updatedItems
      /\ savedStorage' = StoredItems(stringifyItems(savedItems))
      /\ removedId' = id
      /\ UNCHANGED <<filterType, savedMounted>>
      /\ event' = "removeItem"
      /\ UNCHANGED <<detectorVars, prefsVars, homeVars>>
removeItem(id) ==
  LET updatedItems == SelectSeq(savedItems, LAMBDA item : item.id # id)
  IN  /\ savedMounted
      /\ \E i \in DOMAIN filteredItems : filteredItems[i].id = id
      /\ savedItems' = updatedItems
      /\ savedStorage' = StoredItems(stringifyItems(updatedItems))
      /\ removedId' = id
      /\ UNCHANGED <<filterType, savedMounted>>
      /\ event' = "removeItem"
      /\ UNCHANGED <<detectorVars, prefsVars, homeVars>>

\* the type tabs: setFilterType
setFilterType(type) ==
  /\ savedMounted
  /\ filterType' = type
  /\ UNCHANGED <<savedItems, savedStorage, savedMounted, removedId>>
  /\ event' = "filterType"
  /\ UNCHANGED <<detectorVars, prefsVars, homeVars>>

SavedIds == {getSampleSavedItems(0)[i].id : i \in DOMAIN getSampleSavedItems(0)}

NextSavedItems ==
  \/ \E now \in MountTimes : SavedItemsPageMount(now)
  \/ \E id \in SavedIds : removeItem(id)
  \/ \E type \in FilterTypes : setFilterType(type)

(***************************************************************************)
(* Specifications: one per part of the application; the parts not under    *)
(* study hold nothing (no stored item, no buildings) and do not move       *)
(***************************************************************************)

PrefsIdle == PrefsInit /\ storage = NoItem
HomeIdle == HomeInit /\ buildings = <<>>

InitDetector == DetectorInit /\ PrefsIdle /\ HomeIdle /\ ListIdle /\ SavedIdle /\ event = "init"
InitPrefs == DetectorInit /\ PrefsInit /\ HomeIdle /\ ListIdle /\ SavedIdle /\ event = "init"
InitSearch == DetectorInit /\ PrefsIdle /\ HomeInit /\ ListIdle /\ SavedIdle /\ event = "init"
InitView ==
  /\ DetectorInit /\ PrefsIdle /\ HomeInit /\ ListIdle /\ SavedIdle /\ event = "init"
  /\ buildings = Ids(sampleBuildings)
InitCommercialList ==
  DetectorInit /\ PrefsIdle /\ HomeIdle /\ ListInit /\ SavedIdle /\ event = "init"
InitSavedItems ==
  DetectorInit /\ PrefsIdle /\ HomeIdle /\ ListIdle /\ SavedInit /\ event = "init"

SpecDetector == InitDetector /\ [][NextDetector]_vars
\* the detector with an endpoint that settles every request it received: the
\* promise of fetch is resolved or rejected, and the continuation then runs
SpecDetectorLive ==
  InitDetector /\ [][NextDetector]_vars /\ WF_vars(DetectSettles)
SpecPrefs == InitPrefs /\ [][NextPrefs]_vars
SpecSearch == InitSearch /\ [][NextSearch]_vars
SpecSuggest == InitSearch /\ [][NextSuggest]_vars
SpecView == InitView /\ [][NextView]_vars
SpecCommercialList == InitCommercialList /\ [][NextCommercialList]_vars
SpecSavedItems == InitSavedItems /\ [][NextSavedItems]_vars

(***************************************************************************)
(* Claims about the detection form, checked under SpecDetector             *)
(***************************************************************************)

\* C1: at most one detection request is outstanding at any time, and isLoading
\* is true exactly while it is; a click on the detect button while isLoading
\* changes nothing and starts no request; a surfaced result leaves no request
\* behind that could surface a second one.
C1_SingleOutstandingRequest ==
  /\ [](Len(requests) <= 1 /\ (isLoading <=> Len(requests) = 1))
  /\ [][ /\ (event' = "detectClick" /\ isLoading) => UNCHANGED detectorVars
         /\ event' = "detectSuccess" => (Len(requests) = 1 /\ requests' = <<>>) ]_vars

\* C1 witness: a click was rejected while a request is pending (an accepted
\* click clears the error, so the error seen here predates the click)
C1_RejectedClickWhilePending ==
  event = "detectClick" /\ isLoading /\ Len(requests) = 1 /\ error # Null

\* C3: the answer to a request that was pending when reset was issued changes
\* neither detectionResult, processedImage nor error.
C3_LateResponseIsNoOp ==
  [][ (\E i \in DOMAIN requests : requests[i].reset /\ requests' = RemoveAt(requests, i))
        => UNCHANGED <<detectionResult, processedImage, error>> ]_vars

(***************************************************************************)
(* Claims about the preferences, checked under SpecPrefs                   *)
(***************************************************************************)

\* the stored item parses to exactly this settings object
StoredEquals(settings) ==
  /\ storage.present
  /\ JSONparse(storage.text) = [ok |-> TRUE, value |-> settings]

Unusable(item) ==
  \/ ~item.present
  \/ ~JSONparse(item.text).ok
  \/ JSONparse(item.text).value \notin AllPrefs

\* C6: loading never crashes, yields the defaults whenever there is no stored
\* value or it is unusable, and always leaves a complete preferences object.
C6_LoadFallsBackToDefaults ==
  /\ ~pageCrashed /\ ~menuCrashed
  /\ event = "pageMount" =>
       pageSettings \in AllPrefs /\ (Unusable(storage) => pageSettings = Defaults)
  /\ event = "menuMount" =>
       menuSettings \in AllPrefs /\ (Unusable(storage) => menuSettings = Defaults)

\* C7: for every complete preferences object p, loading what saving p stored
\* yields p; loading with nothing stored yields the defaults.
C7_PreferencesRoundTrip ==
  event = "pageMount" =>
    /\ \A p \in AllPrefs : storage = Item(SavedText(p)) => pageSettings = p
    /\ storage = NoItem => pageSettings = Defaults

\* C7 witness: the page loaded the object of the specification's example,
\* which only a save of this session can have stored
C7_ExampleSavedAndReloaded ==
  /\ event = "pageMount"
  /\ storage = Item(SavedText([darkMode |-> TRUE, mapType |-> "satellite",
                               notifications |-> FALSE, dataRefreshInterval |-> 30]))
  /\ pageSettings = [darkMode |-> TRUE, mapType |-> "satellite",
                     notifications |-> FALSE, dataRefreshInterval |-> 30]

(***************************************************************************)
(* Claims about the building search, checked under SpecSearch              *)
(***************************************************************************)

Range(list) == {list[i] : i \in DOMAIN list}

\* C2: the active building is empty or one of the filtered buildings.
C2_ActiveBuildingIsFiltered ==
  activeBuilding = NoBuilding \/ activeBuilding \in Range(filteredBuildings)

\* C8 as stated: in every state the filtered list is the filter of the
\* repository by the current search text.
C8_FilteredFollowsSearchText ==
  filteredBuildings = handleSearchResult(buildings, search)

\* C8 amended: the filtered list is recomputed on a search trigger only: right
\* after one it is the filter of the repository by the current search text, and
\* typing into the box or clearing it leaves the list as it was.
C8_FilteredRecomputedOnTrigger ==
  /\ [](event = "search" => filteredBuildings = handleSearchResult(buildings, search))
  /\ [][event' \in {"type", "clear"} => filteredBuildings' = filteredBuildings]_vars

\* C8 witness: after a search that narrowed the list the box was cleared, and
\* the list is still the narrowed one
C8_ClearedBoxKeepsNarrowedList ==
  /\ event = "clear"
  /\ filteredBuildings # buildings
  /\ filteredBuildings # <<>>

\* name or address contains the query, letter case ignored
ContainsQuery(id, query) ==
  \E text \in {Building(id).name, Building(id).address} :
    \E i \in 0..(Len(text) - Len(query)) :
      \A j \in 1..Len(query) : LowerChar(text[i + j]) = LowerChar(query[j])

\* C9: a search with a query that is not empty after trimming retains exactly
\* the buildings whose name or address contains the trimmed query, letter case
\* ignored, in repository order.
C9_RetainsMatchesOfTrimmedQuery ==
  (event = "search" /\ trim(search) # <<>>) =>
    filteredBuildings = SelectSeq(buildings, LAMBDA id : ContainsQuery(id, trim(search)))

\* C10: a search with an empty or whitespace-only query yields every building
\* of the repository in its order, and a search of an empty repository yields
\* the empty list.
C10_NoFilterReturnsRepository ==
  /\ (event = "search" /\ trim(search) = <<>>) => filteredBuildings = buildings
  /\ (event = "search" /\ buildings = <<>>) => filteredBuildings = <<>>

\* C10 witness: a search with a whitespace-only query over a repository that
\* holds buildings
C10_WhitespaceQuerySearched ==
  /\ event = "search"
  /\ search = <<" ", " ">>
  /\ buildings = Ids(sampleBuildings)
  /\ filteredBuildings = buildings

(***************************************************************************)
(* Filters of the home page and of the commercial list                     *)
(***************************************************************************)

Position(list, x) == CHOOSE k \in DOMAIN list : list[k] = x
NoDuplicates(list) == \A i, j \in DOMAIN list : i # j => list[i] # list[j]
\* sel holds elements of list only, in the order they have in list
IsOrderedSelection(sel, list) ==
  /\ \A i \in DOMAIN sel : \E k \in DOMAIN list : list[k] = sel[i]
  /\ \A i, j \in DOMAIN sel :
       i < j => Position(list, sel[i]) < Position(list, sel[j])

\* C11: the search result and the commercial list hold buildings of the
\* repository only, none of them twice, and the search result keeps the
\* buildings in their repository order
C11_FilterSelectsFromRepository ==
  /\ IsOrderedSelection(filteredBuildings, buildings)
  /\ Range(commercialList) \subseteq Range(buildings)
  /\ NoDuplicates(commercialList)

\* a search kept several buildings and dropped others while the commercial
\* list shows cards
C11_NarrowedSearchBesideList ==
  /\ event = "search"
  /\ showCommercialList
  /\ commercialList # <<>>
  /\ Len(filteredBuildings) >= 2
  /\ Len(filteredBuildings) < Len(buildings)

C13_FiltersComposeConjunctively ==
  showCommercialList =>
    Range(commercialList) =
      {id \in Range(filteredBuildings) :
         IsLargeCommercial(Building(id), commercialMinSize)}

\* C14: no step changes the repository
C14_RepositoryNeverMutated == [][buildings' = buildings]_vars

\* the commercial list is rendered in an order that differs from the
\* repository's
C14_ListSortedBesideRepository ==
  /\ event = "minSize"
  /\ buildings = Ids(sampleBuildings)
  /\ commercialList = <<"6", "7", "8", "9", "10", "4", "3", "1">>

\* C17: switching to the commercial list and back to the map leaves the
\* active building as it was
C17_ViewSwitchKeepsActiveBuilding ==
  [][event' \in {"showList", "backToMap"} => activeBuilding' = activeBuilding]_vars

(***************************************************************************)
(* Category chips and view mode                                            *)
(***************************************************************************)

\* C15: a click on the active chip leaves no chip active, a click on any
\* other chip makes that chip the active one; so two clicks on one chip from
\* no selection end with no selection
C15_CategoryChipSingleSelect ==
  [][event' = "category" =>
       /\ activeCategory' \in CategoryIds \cup {Null}
       /\ (activeCategory = lastChip' => activeCategory' = Null)
       /\ (activeCategory # lastChip' => activeCategory' = lastChip')]_vars

\* the second click on the same chip has cleared the selection
C15_ChipToggledOff ==
  /\ event = "category"
  /\ lastChip = "hotels"
  /\ activeCategory = Null

\* C16: the view mode changes only in the steps of the two toggle buttons
C16_ViewModeChangesOnToggleOnly ==
  [][showCommercialList' # showCommercialList
       => event' \in {"showList", "backToMap"}]_vars

\* the commercial list is still shown after typing, a chip click, a change of
\* the minimum size and a click on the menu button
C16_OtherHandlersRanInListMode ==
  /\ showCommercialList
  /\ event = "sidebar"
  /\ search # <<>>
  /\ activeCategory # Null
  /\ commercialMinSize = 1000000

(***************************************************************************)
(* Detector: input validation and failed requests                          *)
(***************************************************************************)

ImagePayloads == {DataURL(file) : file \in ImageFiles}

C19_MalformedResponseNotDisplayed ==
  detectionResult # NoResult =>
    /\ "count" \in DOMAIN detectionResult
    /\ "detections" \in DOMAIN detectionResult

\* C20: a request that fails (endpoint unreachable, status not ok) ends with
\* that error displayed and isLoading false, and it is not issued again: a
\* request is started only by a click on the detect button
C20_FailureReportedNoRetry ==
  [][ /\ (event' = "detectFailure" /\ error' \in FetchFailures \cup StatusFailures)
          => (~isLoading' /\ Len(requests') = Len(requests) - 1)
      /\ event' = "detectFailure" => error' # Null
      /\ Len(requests') > Len(requests) => event' = "detectClick" ]_vars

\* a request ended with a status that is not ok; the image is still selected
C20_StatusFailureShown ==
  /\ event = "detectFailure"
  /\ error \in StatusFailures
  /\ ~isLoading
  /\ requests = <<>>
  /\ selectedImage # Null

(***************************************************************************)
(* Detector: what is displayed after each handler                          *)
(***************************************************************************)

\* C21: right after an image file is chosen or dropped, and right after a
\* reset, no detection result and no processed image is displayed and the
\* error is cleared
C21_NewImageAndResetDiscardResult ==
  [][ ((event' \in {"fileChange", "drop"} /\ lastFile' \in ImageFiles)
         \/ event' = "reset")
        => /\ detectionResult' = NoResult
           /\ processedImage' = Null
           /\ error' = Null ]_vars

\* the form was reset while another file was being read: nothing is displayed
C21_ResetWithReadPending ==
  /\ event = "reset"
  /\ reads # <<>>
  /\ detectionResult = NoResult
  /\ processedImage = Null
  /\ error = Null

\* C22: Dismiss clears the error and leaves the selected image, the result and
\* isLoading alone; while an error is set it can be dismissed, and while an
\* image is selected and no request is pending a detect can be started
C22_ErrorsAreRecoverable ==
  /\ [](error # Null => ~detectorCrashed)
  /\ []((selectedImage # Null /\ requests = <<>>)
          => (~detectorCrashed /\ ~DetectDisabled))
  /\ [][event' = "dismiss" =>
          /\ error' = Null
          /\ UNCHANGED <<selectedImage, detectionResult, processedImage,
                         isLoading>>]_vars

\* C23: a detection result displayed beside a selected image was computed
\* from that image
C23_ResultBelongsToSelectedImage ==
  (detectionResult # NoResult /\ selectedImage # Null)
    => resultImage = selectedImage

\* C24: once no file read is pending, the selected image is the image of the
\* file chosen last, and it is empty when the form was reset after the last
\* choice
C24_LastChosenFileWins ==
  reads = <<>> =>
    /\ lastFile \in ImageFiles => selectedImage = DataURL(lastFile)
    /\ lastFile = Null => selectedImage = Null

\* C25: the processed image displayed beside a detection result is the
\* processed_image of that result
C25_ProcessedImageOfDisplayedResult ==
  detectionResult # NoResult => processedImage = detectionResult.processed_image

\* C26: a failed detect changes neither the selected image, the displayed
\* result nor the processed image
C26_FailureKeepsResult ==
  [][event' = "detectFailure" =>
       UNCHANGED <<selectedImage, detectionResult, processedImage>>]_vars

\* a detect failed while the result of an earlier detect is displayed
C26_FailureBesideEarlierResult ==
  /\ event = "detectFailure"
  /\ error \in FetchFailures
  /\ selectedImage # Null
  /\ detectionResult # NoResult
  /\ processedImage # Null
  /\ ~isLoading

\* C27: isLoading is true only while a request is in flight, and, when the
\* endpoint settles the request, isLoading becomes false again whether the
\* request succeeded, had a status that is not ok, or threw
C27_LoadingEnds ==
  /\ [](isLoading => requests # <<>>)
  /\ [][event' \in {"detectSuccess", "detectFailure"} => ~isLoading']_vars
  /\ (isLoading ~> ~isLoading)

\* a request answered with a status that is not ok left the pending state
C27_SettledAfterStatusFailure ==
  /\ event = "detectFailure"
  /\ error \in StatusFailures
  /\ ~isLoading
  /\ requests = <<>>

(***************************************************************************)
(* Search bar: suggestions                                                 *)
(***************************************************************************)

C29_SatelliteFlagsAgree ==
  /\ [](localSatelliteView = isSatelliteView)
  /\ [][/\ event' = "satellite" => (isSatelliteView' /\ localSatelliteView')
        /\ event' = "map" => (~isSatelliteView' /\ ~localSatelliteView')
        /\ event' \notin {"satellite", "map"} =>
             UNCHANGED <<isSatelliteView, localSatelliteView>>]_vars

\* Map was selected, the list was shown, and the map is mounted again
C29_MapSelectionSurvivesRemount ==
  /\ event = "backToMap"
  /\ MapMounted
  /\ ~isSatelliteView
  /\ ~localSatelliteView

(***************************************************************************)
(* Saved items: removal and persistence                                    *)
(***************************************************************************)

\* the list a load of the page would read from what is stored
PersistedItems == parseItems(savedStorage.text).value

\* C30: a removal removes exactly the item with the id of the clicked button
\* and keeps the other items in their order, and right after it the list
\* stored under 'savedItems' reads back as the list in memory; a change of the
\* type tab changes neither the list in memory nor what is stored
C30_RemovalPersisted ==
  [][/\ event' = "removeItem" =>
          /\ \E i \in DOMAIN savedItems :
                /\ savedItems[i].id = removedId'
                /\ savedItems' = SubSeq(savedItems, 1, i - 1)
                                   \o SubSeq(savedItems, i + 1, Len(savedItems))
          /\ \A i \in DOMAIN savedItems' : savedItems'[i].id # removedId'
          /\ savedStorage'.present
          /\ parseItems(savedStorage'.text).ok
          /\ parseItems(savedStorage'.text).value = savedItems'
     /\ event' = "filterType" => UNCHANGED <<savedItems, savedStorage>>]_vars

\* an item was removed under the building tab from the four sample items,
\* and the other three remain
C30_RemovedUnderBuildingTab ==
  /\ event = "removeItem"
  /\ removedId = "saved4"
  /\ filterType = "building"
  /\ Len(savedItems) = 3
  /\ PersistedItems = savedItems

====
